---- MODULE Spec2Model ----
(***************************************************************************)
(* Model of src/citadel_agent.py: the EchoAgent session (message history,  *)
(* lazily initialized Azure OpenAI client, request/response/error cycle).  *)
(*                                                                         *)
(* Python values are modelled as follows.  None is the string PyNone (a    *)
(* value no text of the model equals); an object is a record whose cls     *)
(* field names its class; a str is a TLA+ string; a list is a sequence.    *)
(*                                                                         *)
(* asyncio runs coroutines cooperatively: a coroutine is suspended only at *)
(* an await that reaches the event loop.  add_message and initialize hold  *)
(* no such await, so the only suspension point of echo_message and         *)
(* process_with_ai is the remote call chat.completions.create.  Each of    *)
(* the two methods is therefore two atomic steps: from the call up to the  *)
(* remote request (..._begin), and from the remote outcome to the return   *)
(* (..._resume).                                                           *)
(*                                                                         *)
(* os.getenv reads the process environment, which the operator may change  *)
(* between any two calls: every initialize() draws the environment it      *)
(* finds as an input.                                                      *)
(***************************************************************************)
EXTENDS Integers, Sequences, FiniteSets, TLC

\* ---------------------------------------------------------------- bounds
\* Longest transcript the callers build.
MaxMsgs == 4
\* Most client handles constructed in one session.
MaxClients == 2

\* ------------------------------------------------------ values and inputs
PyNone == "<None>"

\* The caller tasks that may call into the session.
Tasks == {1, 2}

\* The four environment variables initialize() reads, in the order it tests them.
EnvVars == << "AZURE_OPENAI_API_KEY", "AZURE_OPENAI_API_BASE",
              "AZURE_OPENAI_API_VERSION", "AZURE_OPENAI_DEPLOYMENT_NAME" >>

\* Roles callers pass to add_message (role is a plain str: any text is accepted).
RoleInputs == {"system", "user", "tool"}

\* Texts callers pass to echo_message and process_with_ai.
Texts == {"hello", "hi"}

\* Texts callers pass to add_message.
AddTexts == {"note"}

\* What chat.completions.create may produce: a reply whose content is a text
\* or None, or a raised exception with a description.
Outcomes == { [kind |-> "reply", content |-> "pong", desc |-> ""],
              [kind |-> "reply", content |-> PyNone, desc |-> ""],
              [kind |-> "raise", content |-> PyNone, desc |-> "timeout"] }

NoOutcome == [kind |-> "none", content |-> PyNone, desc |-> ""]

\* str(e) of the pydantic ValidationError raised by Message(content=None).
ValidationErrorText == "1 validation error for Message"

\* str(e) of the AttributeError raised by None.chat.
NoneTypeErrorText == "'NoneType' object has no attribute 'chat'"

\* ------------------------------------------------------------- data model
IsStr(x) == x # PyNone

\* Message(role=..., content=...): pydantic accepts any two str values.
MessageValid(role, content) == IsStr(role) /\ IsStr(content)

Message(role, content) == [cls |-> "Message", role |-> role, content |-> content]

NoConfig == [cls |-> "NoneType"]

AzureAIConfig(api_key, api_base, api_version, deployment_name) ==
    [cls |-> "AzureAIConfig", api_key |-> api_key, api_base |-> api_base,
     api_version |-> api_version, deployment_name |-> deployment_name]

\* A configuration passed to EchoAgent(config=...).
ExplicitConfig == AzureAIConfig("k0", "b0", "v0", "d0")

NoClient == [cls |-> "NoneType"]

\* AsyncAzureOpenAI(api_key=..., api_version=..., azure_endpoint=...); id tells
\* one constructed handle from another.
AsyncAzureOpenAI(id, api_key, api_version, azure_endpoint) ==
    [cls |-> "AsyncAzureOpenAI", id |-> id, api_key |-> api_key,
     api_version |-> api_version, azure_endpoint |-> azure_endpoint]

\* `not x` of Python for an Optional[str].
Falsy(x) == x = PyNone \/ x = ""

VARIABLES
    messages,     \* EchoAgent.messages
    config,       \* EchoAgent.config
    client,       \* EchoAgent.client
    calls,        \* per task: its suspended echo_message / process_with_ai call
    last,         \* what the latest step did: the call, its inputs and its result
    constructed,  \* number of AsyncAzureOpenAI handles constructed so far
    autoInits,    \* how many of them process_with_ai constructed (line 97)
    appended      \* (role, content) of every add_message call that returned, in order

vars == << messages, config, client, calls, last, constructed, autoInits,
          appended >>


\* ---------------------------------------------- EchoAgent.add_message (72-74)
\* Variant: a trailing system notice is replaced by the new message.
add_message_replacing_notice(msgs, role, content) ==
    IF Len(msgs) > 0 /\ msgs[Len(msgs)].role = "system"
    THEN Append(SubSeq(msgs, 1, Len(msgs) - 1), Message(role, content))
    ELSE Append(msgs, Message(role, content))

\* Variant: the new message is inserted at the front.
add_message_front(msgs, role, content) == << Message(role, content) >> \o msgs

\* self.messages.append(Message(role=role, content=content))
add_message(msgs, role, content) == Append(msgs, Message(role, content))

\* ------------------------------------------ EchoAgent.get_chat_history (119-121)
\* Variant: the history is returned newest first.
get_chat_history_reversed(msgs) ==
    [i \in 1..Len(msgs) |-> [role |-> msgs[Len(msgs) + 1 - i].role,
                             content |-> msgs[Len(msgs) + 1 - i].content]]

\* [{"role": msg.role, "content": msg.content} for msg in self.messages]
get_chat_history(msgs) ==
    [i \in 1..Len(msgs) |-> [role |-> msgs[i].role, content |-> msgs[i].content]]

\* ------------------------------------------------ EchoAgent.initialize (36-70)
EnvVarSet == {EnvVars[i] : i \in 1..Len(EnvVars)}

\* Variant: only the first missing variable is reported.
missing_vars_first(e) ==
    LET all == SelectSeq(EnvVars, LAMBDA v : Falsy(e[v]))
    IN  IF all = << >> THEN << >> ELSE << all[1] >>

\* The four `if not <value>: missing_vars.append(<name>)` tests, in order.
missing_vars(e) == SelectSeq(EnvVars, LAMBDA v : Falsy(e[v]))

RECURSIVE Join(_, _)
\* sep.join(seq)
Join(seq, sep) ==
    IF seq = << >> THEN ""
    ELSE IF Len(seq) = 1 THEN seq[1]
    ELSE seq[1] \o sep \o Join(Tail(seq), sep)

\* The text of the ValueError raised on missing variables.
MissingVarsError(missing) ==
    "Missing required environment variables: " \o Join(missing, ", ")
        \o ". Please check your .env file."

\* The AzureAIConfig built from the environment.
ConfigFromEnv(e) ==
    AzureAIConfig(e[EnvVars[1]], e[EnvVars[2]], e[EnvVars[3]], e[EnvVars[4]])

\* Variant: the missing-variable check is left out.
initialize_unvalidated(cfg, cl, e, n) ==
    LET cfg2 == IF cfg = NoConfig THEN ConfigFromEnv(e) ELSE cfg
    IN  [raised |-> FALSE, error |-> "", missing |-> << >>, config |-> cfg2,
         client |-> AsyncAzureOpenAI(n + 1, cfg2.api_key, cfg2.api_version,
                                     cfg2.api_base),
         constructed |-> n + 1]

\* Variant: called on a Ready session, the handle is dropped and not rebuilt.
initialize_closing(cfg, cl, e, n) ==
    LET readsEnv == cfg = NoConfig
        missing  == IF readsEnv THEN missing_vars(e) ELSE << >>
        cfg2     == IF readsEnv THEN ConfigFromEnv(e) ELSE cfg
    IN  IF missing # << >>
        THEN [raised |-> TRUE, error |-> MissingVarsError(missing),
              missing |-> missing, config |-> cfg, client |-> cl,
              constructed |-> n]
        ELSE IF cl # NoClient
        THEN [raised |-> FALSE, error |-> "", missing |-> missing,
              config |-> cfg2, client |-> NoClient, constructed |-> n]
        ELSE [raised |-> FALSE, error |-> "", missing |-> missing,
              config |-> cfg2,
              client |-> AsyncAzureOpenAI(n + 1, cfg2.api_key,
                                          cfg2.api_version, cfg2.api_base),
              constructed |-> n + 1]

\* Variant: the configuration is stored before the values are checked.
initialize_storing_first(cfg, cl, e, n) ==
    LET readsEnv == cfg = NoConfig
        missing  == IF readsEnv THEN missing_vars(e) ELSE << >>
        cfg2     == IF readsEnv THEN ConfigFromEnv(e) ELSE cfg
    IN  IF missing # << >>
        THEN [raised |-> TRUE, error |-> MissingVarsError(missing),
              missing |-> missing, config |-> cfg2, client |-> cl,
              constructed |-> n]
        ELSE [raised |-> FALSE, error |-> "", missing |-> missing,
              config |-> cfg2,
              client |-> AsyncAzureOpenAI(n + 1, cfg2.api_key,
                                          cfg2.api_version, cfg2.api_base),
              constructed |-> n + 1]

\* Variant: the environment is read and checked whether or not a
\* configuration was supplied.
initialize_env_always(cfg, cl, e, n) ==
    LET missing == missing_vars(e)
        cfg2    == ConfigFromEnv(e)
    IN  IF missing # << >>
        THEN [raised |-> TRUE, error |-> MissingVarsError(missing),
              missing |-> missing, config |-> cfg, client |-> cl,
              constructed |-> n]
        ELSE [raised |-> FALSE, error |-> "", missing |-> missing,
              config |-> cfg2,
              client |-> AsyncAzureOpenAI(n + 1, cfg2.api_key,
                                          cfg2.api_version, cfg2.api_base),
              constructed |-> n + 1]

\* initialize() on a session whose fields are cfg and cl, under environment e,
\* with n handles constructed so far: whether it raised, the error text, the
\* names it found missing, and the fields and handle count it leaves.
initialize(cfg, cl, e, n) ==
    LET readsEnv == cfg = NoConfig
        missing  == IF readsEnv THEN missing_vars(e) ELSE << >>
        cfg2     == IF readsEnv THEN ConfigFromEnv(e) ELSE cfg
    IN  IF missing # << >>
        THEN [raised |-> TRUE, error |-> MissingVarsError(missing),
              missing |-> missing, config |-> cfg, client |-> cl,
              constructed |-> n]
        ELSE [raised |-> FALSE, error |-> "", missing |-> missing,
              config |-> cfg2,
              client |-> AsyncAzureOpenAI(n + 1, cfg2.api_key,
                                          cfg2.api_version, cfg2.api_base),
              constructed |-> n + 1]

\* Variant: initialize() is called on every use.
ensure_client_always(cfg, cl, e, n) == initialize(cfg, cl, e, n)

\* `if not self.client: await self.initialize()` of process_with_ai (96-97).
ensure_client(cfg, cl, e, n) ==
    IF cl = NoClient
    THEN initialize(cfg, cl, e, n)
    ELSE [raised |-> FALSE, error |-> "", missing |-> << >>, config |-> cfg,
          client |-> cl, constructed |-> n]

\* ------------------------------------- the try/except around the remote call
ErrorPrefix == "Error communicating with Azure OpenAI API: "

\* Variant: the exception's description is left out of the text.
error_message_generic(desc) == ErrorPrefix

\* f"Error communicating with Azure OpenAI API: {str(e)}"
error_message(desc) == ErrorPrefix \o desc

\* The request handed to chat.completions.create.
NoRequest == [model |-> PyNone, messages |-> << >>, client |-> 0]

\* Variant: only the newest message is sent.
formatted_messages_newest(msgs) ==
    IF msgs = << >> THEN << >>
    ELSE << [role |-> msgs[Len(msgs)].role,
             content |-> msgs[Len(msgs)].content] >>

\* Line 102: [{"role": msg.role, "content": msg.content} for msg in self.messages]
formatted_messages(msgs) ==
    [i \in 1..Len(msgs) |-> [role |-> msgs[i].role, content |-> msgs[i].content]]

\* Whether the try block completes: the remote call returned and
\* Message(role="assistant", content=<reply>) validates.
try_succeeds(o) == o.kind = "reply" /\ MessageValid("assistant", o.content)

\* str(e) of the exception the except clause catches.
caught_description(o) == IF o.kind = "raise" THEN o.desc ELSE ValidationErrorText

\* str(e) of the AttributeError raised by None.deployment_name.
NoConfigErrorText == "'NoneType' object has no attribute 'deployment_name'"

\* Variant: the call expression is evaluated outside the try, so the
\* AttributeError on a missing client leaves the method.
echo_message_begin_propagating(msgs, cfg, cl, content) ==
    LET m1 == add_message(msgs, "user", content)
        u  == [role |-> "user", content |-> content]
    IN  IF cl = NoClient \/ cfg = NoConfig
        THEN [suspended |-> FALSE, raised |-> TRUE, ret |-> PyNone,
              messages |-> m1, added |-> << u >>,
              steps |-> << "append_user" >>,
              request |-> NoRequest]
        ELSE [suspended |-> TRUE, raised |-> FALSE, ret |-> PyNone,
              messages |-> m1, added |-> << u >>,
              steps |-> << "append_user", "send_request" >>,
              request |-> [model |-> cfg.deployment_name, messages |-> m1,
                           client |-> cl.id]]

\* Lines 78-83 and 89-92 of echo_message, up to the await of the remote call:
\* the transcript left, the add_message calls made, the protocol steps run
\* (in order), and either the request
\* sent (suspended) or, when evaluating the call expression raised
\* AttributeError inside the try, the error text returned.
echo_message_begin(msgs, cfg, cl, content) ==
    LET m1 == add_message(msgs, "user", content)
        u  == [role |-> "user", content |-> content]
        em == error_message(IF cl = NoClient THEN NoneTypeErrorText
                            ELSE NoConfigErrorText)
    IN  IF cl = NoClient \/ cfg = NoConfig
        THEN [suspended |-> FALSE, raised |-> FALSE, ret |-> em,
              messages |-> add_message(m1, "system", em),
              added |-> << u, [role |-> "system", content |-> em] >>,
              steps |-> << "append_user", "append_notice" >>,
              request |-> NoRequest]
        ELSE [suspended |-> TRUE, raised |-> FALSE, ret |-> PyNone,
              messages |-> m1, added |-> << u >>,
              steps |-> << "append_user", "send_request" >>,
              request |-> [model |-> cfg.deployment_name, messages |-> m1,
                           client |-> cl.id]]

\* Variant: the error notice is recorded with the role of a reply.
echo_message_finish_as_assistant(msgs, o) ==
    IF try_succeeds(o)
    THEN [messages |-> add_message(msgs, "assistant", o.content),
          ret |-> o.content, raised |-> FALSE,
          added |-> << [role |-> "assistant", content |-> o.content] >>]
    ELSE LET em == error_message(caught_description(o))
         IN  [messages |-> add_message(msgs, "assistant", em), ret |-> em,
              raised |-> FALSE,
              added |-> << [role |-> "assistant", content |-> em] >>]

\* Variant: the reply is returned without being recorded in the transcript.
echo_message_finish_unrecorded(msgs, o) ==
    IF try_succeeds(o)
    THEN [messages |-> msgs, ret |-> o.content, raised |-> FALSE,
          added |-> << >>]
    ELSE LET em == error_message(caught_description(o))
         IN  [messages |-> add_message(msgs, "system", em), ret |-> em,
              raised |-> FALSE,
              added |-> << [role |-> "system", content |-> em] >>]

\* Lines 85-92 of echo_message: what follows the remote call's outcome o on
\* transcript msgs: the transcript left, the value returned, whether an
\* exception leaves the method, and the add_message calls made.
echo_message_finish(msgs, o) ==
    IF try_succeeds(o)
    THEN [messages |-> add_message(msgs, "assistant", o.content),
          ret |-> o.content, raised |-> FALSE,
          added |-> << [role |-> "assistant", content |-> o.content] >>]
    ELSE LET em == error_message(caught_description(o))
         IN  [messages |-> add_message(msgs, "system", em), ret |-> em,
              raised |-> FALSE,
              added |-> << [role |-> "system", content |-> em] >>]

\* Variant: initialize() is called inside the try, after the user message is
\* appended, so its ValueError is caught and recorded like a remote failure.
process_with_ai_begin_absorbing(msgs, cfg, cl, e, n, content) ==
    LET r  == ensure_client(cfg, cl, e, n)
        m1 == add_message(msgs, "user", content)
        u  == [role |-> "user", content |-> content]
        em == error_message(r.error)
    IN  IF r.raised
        THEN [suspended |-> FALSE, raised |-> FALSE, error |-> "",
              missing |-> r.missing,
              messages |-> add_message(m1, "system", em),
              added |-> << u, [role |-> "system", content |-> em] >>,
              steps |-> << "append_user", "ensure_ready", "append_notice" >>,
              config |-> r.config, client |-> r.client,
              constructed |-> r.constructed, request |-> NoRequest]
        ELSE [suspended |-> TRUE, raised |-> FALSE, error |-> "",
              missing |-> r.missing, messages |-> m1, added |-> << u >>,
              steps |-> << "append_user", "ensure_ready", "send_request" >>,
              config |-> r.config, client |-> r.client,
              constructed |-> r.constructed,
              request |-> [model |-> r.config.deployment_name,
                           messages |-> formatted_messages(m1),
                           client |-> r.client.id]]

\* Lines 96-108 of process_with_ai, up to the await of the remote call: a
\* ValueError of initialize() leaves the method at line 97 (raised); otherwise
\* the user message is appended and the request sent (suspended).
process_with_ai_begin(msgs, cfg, cl, e, n, content) ==
    LET r == ensure_client(cfg, cl, e, n)
    IN  IF r.raised
        THEN [suspended |-> FALSE, raised |-> TRUE, error |-> r.error,
              missing |-> r.missing, messages |-> msgs, added |-> << >>,
              steps |-> << "ensure_ready" >>,
              config |-> r.config, client |-> r.client,
              constructed |-> r.constructed, request |-> NoRequest]
        ELSE LET m1 == add_message(msgs, "user", content)
             IN  [suspended |-> TRUE, raised |-> FALSE, error |-> "",
                  missing |-> r.missing, messages |-> m1,
                  added |-> << [role |-> "user", content |-> content] >>,
                  steps |-> << "ensure_ready", "append_user",
                               "send_request" >>,
                  config |-> r.config, client |-> r.client,
                  constructed |-> r.constructed,
                  request |-> [model |-> r.config.deployment_name,
                               messages |-> formatted_messages(m1),
                               client |-> r.client.id]]

\* Variant: a failure is returned as text without a notice in the transcript.
process_with_ai_finish_silent(msgs, o) ==
    IF try_succeeds(o)
    THEN [messages |-> add_message(msgs, "assistant", o.content),
          ret |-> o.content, raised |-> FALSE,
          added |-> << [role |-> "assistant", content |-> o.content] >>]
    ELSE LET em == error_message(caught_description(o))
         IN  [messages |-> msgs, ret |-> em, raised |-> FALSE,
              added |-> << >>]

\* Lines 110-117 of process_with_ai: as echo_message_finish, for process_with_ai.
process_with_ai_finish(msgs, o) ==
    IF try_succeeds(o)
    THEN [messages |-> add_message(msgs, "assistant", o.content),
          ret |-> o.content, raised |-> FALSE,
          added |-> << [role |-> "assistant", content |-> o.content] >>]
    ELSE LET em == error_message(caught_description(o))
         IN  [messages |-> add_message(msgs, "system", em), ret |-> em,
              raised |-> FALSE,
              added |-> << [role |-> "system", content |-> em] >>]

\* ------------------------------------------------------------ bookkeeping
\* The environments drawn: every subset of the four variables unset, and a
\* variable set to the empty text.
CompleteEnv == [v \in EnvVarSet |-> "v"]

Environments ==
    [EnvVarSet -> {PyNone, "v"}]
        \cup {[CompleteEnv EXCEPT ![v] = ""] : v \in EnvVarSet}
        \cup {[v \in EnvVarSet |-> ""]}

NoEnv == [v \in EnvVarSet |-> PyNone]

IdleCall == [pc |-> "idle", op |-> "", content |-> "", pre |-> << >>,
             envAtCall |-> NoEnv, configAtCall |-> NoConfig, clientAtCall |-> NoClient,
             constructedAtCall |-> 0, request |-> NoRequest,
             outcome |-> NoOutcome, ret |-> PyNone]

NoLast == [op |-> "", status |-> "", role |-> "", content |-> "",
           error |-> "", missing |-> << >>, pre |-> << >>,
           envAt |-> NoEnv, configBefore |-> NoConfig,
           clientBefore |-> NoClient, request |-> NoRequest,
           outcome |-> NoOutcome, ret |-> PyNone, result |-> << >>,
           steps |-> << >>, constructedBefore |-> 0, peer |-> IdleCall]

\* No echo_message / process_with_ai call is suspended on its remote call.
NoneInFlight == \A c \in Tasks : calls[c].pc # "waiting"

\* Task c takes the next call: the tasks are interchangeable, so a call is
\* given to the first task that has none suspended.  Calls that overlap are
\* awaited together (asyncio.gather): no call starts between the return of
\* one and the return of the other.
FreeTask(c) ==
    /\ calls[c].pc = "idle"
    /\ \A d \in Tasks : d < c => calls[d].pc # "idle"
    /\ \A d \in Tasks : calls[d].pc # "done"

\* The call of task c returns: its record is kept (done) while a call that
\* overlapped it is still suspended, and dropped with the last of them.
Returning(c, o, ret) ==
    IF \E d \in Tasks \ {c} : calls[d].pc = "waiting"
    THEN [calls EXCEPT ![c] = [calls[c] EXCEPT !.pc = "done", !.outcome = o,
                                               !.ret = ret]]
    ELSE [d \in Tasks |-> IdleCall]

\* The record of the call that overlapped task c's and returned before it.
Peer(c) ==
    IF \E d \in Tasks \ {c} : calls[d].pc = "done"
    THEN calls[CHOOSE d \in Tasks \ {c} : calls[d].pc = "done"]
    ELSE IdleCall

Status(raised, suspended) ==
    IF raised THEN "raised" ELSE IF suspended THEN "suspended" ELSE "returned"

\* ------------------------------------------------------------------- Init
\* EchoAgent() or EchoAgent(config=...): no messages, no client.
Init ==
    /\ messages = << >>
    /\ config \in {NoConfig, ExplicitConfig}
    /\ client = NoClient
    /\ calls = [c \in Tasks |-> IdleCall]
    /\ last = NoLast
    /\ constructed = 0
    /\ autoInits = 0
    /\ appended = << >>

\* ---------------------------------------------------------------- actions
\* A caller awaits agent.add_message(role, content); Message(...) raises a
\* ValidationError, before the append, when an argument is no str.
AddMessage(role, content) ==
    /\ Len(messages) < MaxMsgs
    /\ IF MessageValid(role, content)
       THEN /\ messages' = add_message(messages, role, content)
            /\ appended' = Append(appended, [role |-> role, content |-> content])
       ELSE UNCHANGED << messages, appended >>
    /\ last' = [NoLast EXCEPT
                   !.op = "add_message",
                   !.status = Status(~MessageValid(role, content), FALSE),
                   !.role = role, !.content = content, !.pre = messages]
    /\ UNCHANGED << config, client, calls, constructed, autoInits >>

\* A caller awaits agent.initialize() while the environment is e.
Initialize(e) ==
    LET r == initialize(config, client, e, constructed)
    IN  /\ r.constructed <= MaxClients
        /\ config' = r.config
        /\ client' = r.client
        /\ constructed' = r.constructed
        /\ last' = [NoLast EXCEPT
                       !.op = "initialize",
                       !.status = Status(r.raised, FALSE),
                       !.error = r.error, !.missing = r.missing,
                       !.pre = messages, !.envAt = e,
                       !.configBefore = config, !.clientBefore = client]
        /\ UNCHANGED << messages, calls, autoInits, appended >>

\* A caller calls agent.get_chat_history().
GetChatHistory ==
    /\ last' = [NoLast EXCEPT !.op = "get_chat_history", !.status = "returned",
                              !.pre = messages,
                              !.result = get_chat_history(messages)]
    /\ UNCHANGED << messages, config, client, calls, constructed, autoInits,
                    appended >>

\* Task c calls echo_message(content) and runs to the await of the remote
\* call, or to the return when the call expression raised.
EchoMessageBegin(c, content) ==
    /\ FreeTask(c)
    /\ Len(messages) + 2 <= MaxMsgs
    /\ LET b == echo_message_begin(messages, config, client, content)
       IN  /\ messages' = b.messages
           /\ appended' = appended \o b.added
           /\ calls' = IF b.suspended
                       THEN [calls EXCEPT ![c] =
                                [pc |-> "waiting", op |-> "echo_message",
                                 content |-> content, pre |-> messages,
                                 envAtCall |-> NoEnv,
                                 configAtCall |-> config,
                                 clientAtCall |-> client,
                                 constructedAtCall |-> constructed,
                                 request |-> b.request,
                                 outcome |-> NoOutcome, ret |-> PyNone]]
                       ELSE calls
           /\ last' = [NoLast EXCEPT
                          !.op = "echo_message",
                          !.status = Status(b.raised, b.suspended),
                          !.content = content, !.pre = messages,
                          !.configBefore = config, !.clientBefore = client,
                          !.request = b.request, !.ret = b.ret,
                          !.steps = b.steps,
                          !.constructedBefore = constructed]
    /\ UNCHANGED << config, client, constructed, autoInits >>

\* Variant: the reply is appended to the transcript as it stood when the
\* call was suspended, and the result written back over self.messages.
EchoMessageResumeStale(c, o) ==
    /\ calls[c].pc = "waiting"
    /\ calls[c].op = "echo_message"
    /\ LET f == echo_message_finish(calls[c].request.messages, o)
       IN  /\ messages' = f.messages
           /\ appended' = appended \o f.added
           /\ calls' = Returning(c, o, f.ret)
           /\ last' = [NoLast EXCEPT
                          !.op = "echo_message",
                          !.status = Status(f.raised, FALSE),
                          !.content = calls[c].content, !.pre = calls[c].pre,
                          !.envAt = calls[c].envAtCall,
                          !.configBefore = calls[c].configAtCall,
                          !.clientBefore = calls[c].clientAtCall,
                          !.request = calls[c].request, !.outcome = o,
                          !.ret = f.ret,
                          !.constructedBefore = calls[c].constructedAtCall,
                          !.peer = Peer(c)]
    /\ UNCHANGED << config, client, constructed, autoInits >>

\* The remote call of task c's echo_message ends with outcome o.
EchoMessageResume(c, o) ==
    /\ calls[c].pc = "waiting"
    /\ calls[c].op = "echo_message"
    /\ LET f == echo_message_finish(messages, o)
       IN  /\ messages' = f.messages
           /\ appended' = appended \o f.added
           /\ calls' = Returning(c, o, f.ret)
           /\ last' = [NoLast EXCEPT
                          !.op = "echo_message",
                          !.status = Status(f.raised, FALSE),
                          !.content = calls[c].content, !.pre = calls[c].pre,
                          !.envAt = calls[c].envAtCall,
                          !.configBefore = calls[c].configAtCall,
                          !.clientBefore = calls[c].clientAtCall,
                          !.request = calls[c].request, !.outcome = o,
                          !.ret = f.ret,
                          !.constructedBefore = calls[c].constructedAtCall,
                          !.peer = Peer(c)]
    /\ UNCHANGED << config, client, constructed, autoInits >>

\* Task c calls process_with_ai(content) while the environment is e and runs
\* to the await of the remote call, or to the ValueError of initialize().
ProcessWithAiBegin(c, content, e) ==
    /\ FreeTask(c)
    /\ Len(messages) + 2 <= MaxMsgs
    /\ LET b == process_with_ai_begin(messages, config, client, e,
                                      constructed, content)
       IN  /\ b.constructed <= MaxClients
           /\ messages' = b.messages
           /\ appended' = appended \o b.added
           /\ config' = b.config
           /\ client' = b.client
           /\ constructed' = b.constructed
           /\ autoInits' = autoInits + (b.constructed - constructed)
           /\ calls' = IF b.suspended
                       THEN [calls EXCEPT ![c] =
                                [pc |-> "waiting", op |-> "process_with_ai",
                                 content |-> content, pre |-> messages,
                                 envAtCall |-> e,
                                 configAtCall |-> config,
                                 clientAtCall |-> client,
                                 constructedAtCall |-> constructed,
                                 request |-> b.request,
                                 outcome |-> NoOutcome, ret |-> PyNone]]
                       ELSE calls
           /\ last' = [NoLast EXCEPT
                          !.op = "process_with_ai",
                          !.status = Status(b.raised, b.suspended),
                          !.content = content, !.pre = messages,
                          !.error = b.error, !.missing = b.missing,
                          !.envAt = e, !.configBefore = config,
                          !.clientBefore = client, !.request = b.request,
                          !.steps = b.steps,
                          !.constructedBefore = constructed]

\* The remote call of task c's process_with_ai ends with outcome o.
ProcessWithAiResume(c, o) ==
    /\ calls[c].pc = "waiting"
    /\ calls[c].op = "process_with_ai"
    /\ LET f == process_with_ai_finish(messages, o)
       IN  /\ messages' = f.messages
           /\ appended' = appended \o f.added
           /\ calls' = Returning(c, o, f.ret)
           /\ last' = [NoLast EXCEPT
                          !.op = "process_with_ai",
                          !.status = Status(f.raised, FALSE),
                          !.content = calls[c].content, !.pre = calls[c].pre,
                          !.envAt = calls[c].envAtCall,
                          !.configBefore = calls[c].configAtCall,
                          !.clientBefore = calls[c].clientAtCall,
                          !.request = calls[c].request, !.outcome = o,
                          !.ret = f.ret,
                          !.constructedBefore = calls[c].constructedAtCall,
                          !.peer = Peer(c)]
    /\ UNCHANGED << config, client, constructed, autoInits >>

\* ---------------------------------------------------------- specification
\* The environments drawn for a process_with_ai call: it reads the
\* environment only through initialize(), which it calls when there is no
\* client (line 96); on a session with a client, nothing set and everything
\* set are drawn.
EnvironmentsAt ==
    IF client = NoClient THEN Environments ELSE {NoEnv, CompleteEnv}

\* The intended usage: one request in flight at a time, and no other call
\* into the session while it is suspended.
Next ==
    \/ NoneInFlight /\ \E role \in RoleInputs, content \in AddTexts :
                           AddMessage(role, content)
    \/ NoneInFlight /\ \E e \in Environments : Initialize(e)
    \/ NoneInFlight /\ GetChatHistory
    \/ NoneInFlight /\ \E c \in Tasks, content \in Texts :
                           EchoMessageBegin(c, content)
    \/ \E c \in Tasks, o \in Outcomes : EchoMessageResume(c, o)
    \/ NoneInFlight /\ \E c \in Tasks, content \in Texts, e \in EnvironmentsAt :
                           ProcessWithAiBegin(c, content, e)
    \/ \E c \in Tasks, o \in Outcomes : ProcessWithAiResume(c, o)

Spec == Init /\ [][Next]_vars

\* The environments drawn where calls overlap: nothing set, everything set.
OverlapEnvironments == {NoEnv, CompleteEnv}

\* Unsupported usage: a second echo_message / process_with_ai call is made
\* while a first is suspended on its remote call; the two remote calls end in
\* either order.
NextOverlap ==
    \/ NoneInFlight /\ \E role \in RoleInputs, content \in AddTexts :
                           AddMessage(role, content)
    \/ NoneInFlight /\ \E e \in OverlapEnvironments : Initialize(e)
    \/ NoneInFlight /\ GetChatHistory
    \/ \E c \in Tasks, content \in Texts : EchoMessageBegin(c, content)
    \/ \E c \in Tasks, o \in Outcomes : EchoMessageResume(c, o)
    \/ \E c \in Tasks, content \in Texts, e \in OverlapEnvironments :
           ProcessWithAiBegin(c, content, e)
    \/ \E c \in Tasks, o \in Outcomes : ProcessWithAiResume(c, o)

SpecOverlap == Init /\ [][NextOverlap]_vars

\* ================================================================ claims
\* Vocabulary of the claims, stated apart from the operators above.
ValidRoles == {"system", "user", "assistant"}

SubmitOps == {"echo_message", "process_with_ai"}

Ready(cl) == cl # NoClient

Msg(role, content) == [cls |-> "Message", role |-> role, content |-> content]

IsPrefix(s, t) == Len(s) <= Len(t) /\ SubSeq(t, 1, Len(s)) = s

\* The latest step returned from echo_message or process_with_ai.
ReturnedSubmit == last.op \in SubmitOps /\ last.status = "returned"

\* The latest step resumed a call whose remote call produced an outcome.
Resumed == last.op \in SubmitOps /\ last.outcome # NoOutcome

\* The remote call succeeded with a reply text.
ReplyOutcome(o) == o.kind = "reply" /\ o.content # PyNone

\* The failure description of an outcome that is no reply text: the raised
\* exception's, or that of the reply whose content is None.
FailureDescription(o) ==
    IF o.kind = "raise" THEN o.desc ELSE "1 validation error for Message"

ErrorText(d) == "Error communicating with Azure OpenAI API: " \o d

\* C1: for echo_message and process_with_ai, called with the client Ready on
\* transcript T with text t, when the remote call succeeds with reply text r
\* the transcript is T followed by exactly (user, t) then (assistant, r), and
\* the call returns r.
C1_SuccessAppendsUserThenAssistant ==
    (ReturnedSubmit /\ Ready(last.clientBefore) /\ ReplyOutcome(last.outcome))
        => /\ messages = last.pre \o << Msg("user", last.content),
                                        Msg("assistant", last.outcome.content) >>
           /\ last.ret = last.outcome.content

C1_Witness ==
    /\ ReturnedSubmit /\ Ready(last.clientBefore) /\ ReplyOutcome(last.outcome)
    /\ last.op = "echo_message"
    /\ Len(last.pre) >= 1
    /\ Len(messages) = Len(last.pre) + 2

\* C2: for echo_message and process_with_ai, called with the client Ready on
\* transcript T with text t, when the remote call fails with description d
\* the call does not raise, the transcript is T followed by exactly (user, t)
\* then (system, e), where e is the error prefix followed by d, and the call
\* returns e.
C2_FailureAppendsUserThenSystem ==
    (Resumed /\ Ready(last.clientBefore) /\ ~ReplyOutcome(last.outcome))
        => LET e == ErrorText(FailureDescription(last.outcome))
           IN  /\ last.status = "returned"
               /\ messages = last.pre \o << Msg("user", last.content),
                                            Msg("system", e) >>
               /\ last.ret = e

C2_Witness ==
    /\ Resumed /\ Ready(last.clientBefore)
    /\ last.outcome.kind = "raise"
    /\ last.op = "process_with_ai"
    /\ last.ret = ErrorText("timeout")
    /\ Len(last.pre) >= 1

\* C3: in every step of every operation (add_message, echo_message,
\* process_with_ai, initialize, get_chat_history; remote calls succeeding or
\* failing, initialization succeeding or failing) the transcript before the
\* step is a prefix of the transcript after it.
C3_TranscriptAppendOnly == [][IsPrefix(messages, messages')]_vars

C3_Witness ==
    /\ Resumed /\ last.outcome.kind = "raise"
    /\ Len(last.pre) >= 2
    /\ IsPrefix(last.pre, messages) /\ Len(messages) = Len(last.pre) + 2

\* C4: get_chat_history() returns exactly the (role, content) pairs of the
\* add_message calls made so far, in call order: same length, same order,
\* nothing lost or duplicated.
C4_SnapshotIsCallOrder ==
    last.op = "get_chat_history"
        => /\ Len(last.result) = Len(appended)
           /\ \A i \in 1..Len(appended) :
                  last.result[i] = [role |-> appended[i].role,
                                    content |-> appended[i].content]

\* Three add_message calls with valid roles on a fresh session, then a snapshot.
C4_Witness ==
    /\ last.op = "get_chat_history"
    /\ Len(appended) = 3
    /\ \A i \in 1..3 : appended[i].content \in AddTexts
                       /\ appended[i].role \in ValidRoles
    /\ appended[1].role # appended[2].role
    /\ appended[2].role # appended[3].role

\* C5: add_message with a role outside {system, user, assistant} fails and
\* leaves the transcript unchanged, and no transcript holds a message whose
\* role is outside that set.
C5_InvalidRoleRejected ==
    /\ (last.op = "add_message" /\ last.role \notin ValidRoles)
           => (last.status = "raised" /\ messages = last.pre)
    /\ \A i \in 1..Len(messages) : messages[i].role \in ValidRoles

\* The environment variables initialize() found absent: unset or empty, the
\* values the code reports as missing.
Absent(x) == x = PyNone \/ x = ""

AbsentVars(e) == {v \in EnvVarSet : Absent(e[v])}

Range(seq) == {seq[i] : i \in 1..Len(seq)}

NoDuplicates(seq) == \A i, j \in 1..Len(seq) : seq[i] = seq[j] => i = j

\* The names of M in the order initialize() tests them.
InTestOrder(M) == SelectSeq(EnvVars, LAMBDA v : v \in M)

RECURSIVE CommaList(_)
CommaList(seq) ==
    IF Len(seq) = 0 THEN ""
    ELSE IF Len(seq) = 1 THEN seq[1]
    ELSE seq[1] \o ", " \o CommaList(Tail(seq))

\* C6: initialize() on a session without an explicit configuration, with the
\* set M of the four environment values absent: it raises if and only if M is
\* non-empty, and the error names exactly the fields of M, each once.
C6_InitializeNamesEveryMissingField ==
    (last.op = "initialize" /\ last.configBefore = NoConfig)
        => LET M == AbsentVars(last.envAt)
           IN  /\ (last.status = "raised") <=> (M # {})
               /\ Range(last.missing) = M
               /\ NoDuplicates(last.missing)
               /\ last.status = "raised" =>
                      last.error = "Missing required environment variables: "
                                       \o CommaList(InTestOrder(M))
                                       \o ". Please check your .env file."

\* Two of the four values absent, neither of them the first one tested.
C6_Witness ==
    /\ last.op = "initialize" /\ last.configBefore = NoConfig
    /\ last.status = "raised"
    /\ AbsentVars(last.envAt) = {EnvVars[2], EnvVars[4]}
    /\ last.missing = << EnvVars[2], EnvVars[4] >>

\* C7: process_with_ai called with no client and no configuration while a
\* required environment value is absent raises the configuration error to
\* the caller: no request is sent, the transcript is unchanged (no error
\* notice), and the client stays uninitialized.
C7_ConfigurationErrorNotAbsorbed ==
    (/\ last.op = "process_with_ai"
     /\ ~Ready(last.clientBefore)
     /\ last.configBefore = NoConfig
     /\ AbsentVars(last.envAt) # {})
        => /\ last.status = "raised"
           /\ last.error # ""
           /\ last.request = NoRequest
           /\ NoneInFlight
           /\ messages = last.pre
           /\ ~Ready(client)
           /\ config = NoConfig

C7_Witness ==
    /\ last.op = "process_with_ai"
    /\ ~Ready(last.clientBefore) /\ last.configBefore = NoConfig
    /\ Cardinality(AbsentVars(last.envAt)) = 1
    /\ last.status = "raised"
    /\ Len(messages) >= 1

\* C8: in a session where every handle was constructed by process_with_ai
\* (no explicit initialize() built one), process_with_ai constructs the
\* client exactly once: a call that finds no client and a complete
\* configuration constructs handle 1 and goes on to the remote call, and
\* every call that gets past initialization, whatever the earlier remote
\* outcomes, runs on that same handle.
C8_AutoInitExactlyOnce ==
    /\ autoInits <= 1
    /\ (/\ last.op = "process_with_ai"
        /\ ~Ready(last.clientBefore)
        /\ (last.configBefore # NoConfig \/ AbsentVars(last.envAt) = {}))
           => (last.status # "raised" /\ Ready(client) /\ autoInits = 1)
    /\ (/\ last.op = "process_with_ai"
        /\ last.status \in {"suspended", "returned"}
        /\ constructed = autoInits)
           => /\ constructed = 1
              /\ Ready(client) /\ client.id = 1
              /\ last.request.client = 1
              /\ Ready(last.clientBefore) => last.clientBefore = client

\* A second process_with_ai call returned, after a first one whose remote
\* call failed, on the handle the first call constructed.
C8_Witness ==
    /\ last.op = "process_with_ai" /\ last.status = "returned"
    /\ constructed = 1 /\ autoInits = 1
    /\ Ready(last.clientBefore) /\ last.clientBefore = client
    /\ Len(last.pre) = 2
    /\ last.pre[2].role = "system"
    /\ last.pre[2].content = ErrorText("timeout")

\* C9: within one session the client handle is constructed at most once,
\* whatever the sequence of operations: once the client is Ready no
\* operation constructs or binds a new handle.
C9_HandleConstructedAtMostOnce ==
    /\ constructed <= 1
    /\ (last.status # "" /\ Ready(last.clientBefore)) => client = last.clientBefore

\* The error notices echo_message and process_with_ai can have recorded.
IsErrorNotice(m) ==
    /\ m.role = "system"
    /\ \E d \in {"timeout", "1 validation error for Message",
                 "'NoneType' object has no attribute 'chat'"} :
           m.content = ErrorText(d)

\* C10: after an echo_message or process_with_ai whose remote call failed the
\* client is still the Ready client it was; and an echo_message or
\* process_with_ai made on a transcript T that ends with such an error notice
\* whose remote call succeeds with reply r leaves T followed by (user, t) then
\* (assistant, r) and returns r.
C10_SessionUsableAfterFailure ==
    /\ (Resumed /\ Ready(last.clientBefore) /\ ~ReplyOutcome(last.outcome))
           => /\ Ready(client) /\ client = last.clientBefore
              /\ config = last.configBefore
              /\ NoneInFlight
    /\ (/\ ReturnedSubmit /\ ReplyOutcome(last.outcome)
        /\ Len(last.pre) >= 1 /\ IsErrorNotice(last.pre[Len(last.pre)]))
           => /\ Len(messages) = Len(last.pre) + 2
              /\ SubSeq(messages, 1, Len(last.pre)) = last.pre
              /\ messages[Len(messages) - 1] = Msg("user", last.content)
              /\ messages[Len(messages)] = Msg("assistant", last.outcome.content)
              /\ last.ret = last.outcome.content

\* A reply after a failed call on the same Ready client.
C10_Witness ==
    /\ ReturnedSubmit /\ ReplyOutcome(last.outcome)
    /\ Ready(last.clientBefore)
    /\ Len(last.pre) = 2
    /\ last.pre[2] = Msg("system", ErrorText("timeout"))
    /\ Len(messages) = 4
    /\ messages[4].role = "assistant"

\* The (role, content) pairs of a sequence of messages or dicts.
Pairs(seq) ==
    [i \in 1..Len(seq) |-> [role |-> seq[i].role, content |-> seq[i].content]]

\* The latest step sent a completion request and suspended on it.
SentRequest == last.op \in SubmitOps /\ last.status = "suspended"

\* C11: the request echo_message or process_with_ai sends carries, in order,
\* the (role, content) pairs of the whole transcript as it stands once the new
\* user message is appended: every earlier message, error notices included,
\* then that user message.
C11_RequestCarriesWholeTranscript ==
    SentRequest
        => /\ Pairs(last.request.messages) = Pairs(messages)
           /\ Len(last.request.messages) = Len(last.pre) + 1
           /\ Pairs(last.request.messages) =
                  Pairs(last.pre) \o << [role |-> "user",
                                         content |-> last.content] >>

\* A process_with_ai request sent on a transcript that ends with an error notice.
C11_Witness ==
    /\ SentRequest /\ last.op = "process_with_ai"
    /\ Len(last.pre) = 2
    /\ IsErrorNotice(last.pre[2])
    /\ Len(last.request.messages) = 3
    /\ last.request.messages[2].role = "system"

\* A configuration whose four fields all hold a non-empty text.
Populated(cfg) ==
    /\ cfg # NoConfig
    /\ \A x \in {cfg.api_key, cfg.api_base, cfg.api_version,
                 cfg.deployment_name} : x # PyNone /\ x # ""

C13_ReadyStaysReady == [][Ready(client) => Ready(client')]_vars

\* Ready after a remote failure and after a repeated initialize().
C13_Witness ==
    /\ Ready(client) /\ Ready(last.clientBefore)
    /\ constructed = 2
    /\ Resumed /\ last.outcome.kind = "raise"

\* The latest step was an initialize() that raised on missing configuration.
InitializeFailed == last.op = "initialize" /\ last.status = "raised"

\* C14: an initialize() that raises on missing configuration leaves the
\* session as it was (client uninitialized, configuration absent, transcript
\* and handle count unchanged); and the next initialize() or process_with_ai,
\* made with all four values available, reaches Ready.
C14_FailedInitializeLeavesNoTrace ==
    /\ [](InitializeFailed
             => /\ ~Ready(client) /\ client = last.clientBefore
                /\ config = NoConfig /\ config = last.configBefore
                /\ messages = last.pre
                /\ NoneInFlight)
    /\ [][(/\ InitializeFailed
           /\ last'.op \in {"initialize", "process_with_ai"}
           /\ AbsentVars(last'.envAt) = {})
              => /\ last'.status # "raised"
                 /\ Ready(client')
                 /\ Populated(config')
                 /\ constructed' = constructed + 1]_vars

C14_Witness ==
    /\ InitializeFailed
    /\ Cardinality(AbsentVars(last.envAt)) = 1
    /\ Len(messages) >= 1
    /\ constructed = 0

\* The latest step began an echo_message or process_with_ai call (and ran it
\* to its remote call, its return or its exception).
BeganSubmit == last.op \in SubmitOps /\ last.outcome = NoOutcome

\* Every a in seq comes before every b in seq.
Precedes(seq, a, b) ==
    \A i, j \in 1..Len(seq) : (seq[i] = a /\ seq[j] = b) => i < j

\* C15: in both methods the user message is appended first, only
\* then is the client ensured Ready, and only then is the request sent.
C15_UserAppendedBeforeEnsureReady ==
    BeganSubmit
        => /\ last.steps[1] = "append_user"
           /\ Precedes(last.steps, "append_user", "ensure_ready")
           /\ Precedes(last.steps, "ensure_ready", "send_request")
           /\ Precedes(last.steps, "append_user", "send_request")
           /\ IsPrefix(last.pre \o << Msg("user", last.content) >>, messages)

\* A call that started on a Ready session has returned after its remote call.
ReturnedFromReady ==
    ReturnedSubmit /\ Resumed /\ Ready(last.clientBefore)

\* C16: started from the same state with the client Ready, given the same text
\* and the same remote outcome, echo_message and process_with_ai leave the
\* same transcript, return the same value and leave the same client and
\* configuration, whatever the environment holds.
C16_EntryPointsAgreeWhenReady ==
    ReturnedFromReady
        => \A e \in Environments :
               LET eb == echo_message_begin(last.pre, last.configBefore,
                                            last.clientBefore, last.content)
                   pb == process_with_ai_begin(last.pre, last.configBefore,
                                               last.clientBefore, e,
                                               constructed, last.content)
                   ef == echo_message_finish(eb.messages, last.outcome)
                   pf == process_with_ai_finish(pb.messages, last.outcome)
               IN  /\ eb.suspended /\ pb.suspended
                   /\ ~eb.raised /\ ~pb.raised
                   /\ eb.messages = pb.messages
                   /\ ef.messages = messages /\ pf.messages = messages
                   /\ ef.ret = last.ret /\ pf.ret = last.ret
                   /\ ~ef.raised /\ ~pf.raised
                   /\ pb.config = config /\ config = last.configBefore
                   /\ pb.client = client /\ client = last.clientBefore
                   /\ pb.constructed = constructed

\* process_with_ai, called on a Ready session under an incomplete
\* environment, returned after a failed remote call.
C16_Witness ==
    /\ ReturnedFromReady
    /\ last.op = "process_with_ai"
    /\ AbsentVars(last.envAt) # {}
    /\ last.outcome.kind = "raise"
    /\ Len(last.pre) >= 1

\* C17: whenever echo_message or process_with_ai returns a value, the last
\* message of the transcript holds that value, with role assistant exactly
\* when the remote call gave a reply and role system exactly when it did not.
C17_LastRoleTellsReplyFromFailure ==
    ReturnedSubmit
        => /\ Len(messages) >= 1
           /\ messages[Len(messages)].content = last.ret
           /\ messages[Len(messages)].role = "assistant"
                  <=> ReplyOutcome(last.outcome)
           /\ messages[Len(messages)].role = "system"
                  <=> ~ReplyOutcome(last.outcome)

\* A call returned the error text of a failed remote call.
C17_Witness ==
    /\ ReturnedSubmit
    /\ Resumed
    /\ last.outcome.kind = "raise"
    /\ messages[Len(messages)].role = "system"
    /\ last.ret = ErrorText(last.outcome.desc)

\* initialize() was called on a session that holds a configuration.
InitializeWithConfig == last.op = "initialize" /\ last.configBefore # NoConfig

\* C18: with a configuration supplied, initialize() does not raise whatever
\* the environment holds, keeps the configuration, and leaves the client
\* Ready, built from that configuration.
C18_ExplicitConfigIgnoresEnvironment ==
    InitializeWithConfig
        => /\ last.status = "returned"
           /\ last.error = ""
           /\ config = last.configBefore
           /\ Ready(client)
           /\ client.api_key = last.configBefore.api_key
           /\ client.api_version = last.configBefore.api_version
           /\ client.azure_endpoint = last.configBefore.api_base

\* initialize() on a fresh session constructed with a configuration, with
\* none of the four environment values present.
C18_Witness ==
    /\ InitializeWithConfig
    /\ last.configBefore = ExplicitConfig
    /\ ~Ready(last.clientBefore)
    /\ AbsentVars(last.envAt) = EnvVarSet
    /\ Ready(client)

\* echo_message was called while the client was not built.
EchoUninitialized == last.op = "echo_message" /\ ~Ready(last.clientBefore)

\* C19: echo_message on an Uninitialized client does not raise and sends no
\* request: it appends the user message, then a system notice with the error
\* text, returns that text, and leaves client and configuration as they were.
C19_EchoUninitializedReportsError ==
    EchoUninitialized
        => /\ last.status = "returned"
           /\ last.outcome = NoOutcome
           /\ last.request = NoRequest
           /\ NoneInFlight
           /\ messages = last.pre \o
                  << Msg("user", last.content),
                     Msg("system", ErrorText(NoneTypeErrorText)) >>
           /\ last.ret = ErrorText(NoneTypeErrorText)
           /\ ~Ready(client)
           /\ config = last.configBefore

\* echo_message on a session constructed with a configuration but never
\* initialized, with messages already in the transcript.
C19_Witness ==
    /\ EchoUninitialized
    /\ last.status = "returned"
    /\ last.configBefore = ExplicitConfig
    /\ Len(last.pre) >= 1
    /\ Len(messages) = Len(last.pre) + 2

\* The message a call leaves for outcome o of its remote call.
Recorded(o) ==
    IF ReplyOutcome(o) THEN Msg("assistant", o.content)
    ELSE Msg("system", ErrorText(FailureDescription(o)))

\* The second of two overlapping calls has returned: last describes it, and
\* last.peer the call that returned before it.
OverlapFinished == Resumed /\ last.peer.pc = "done"

\* Of the two calls, the transcript found by the one that started first, the
\* texts of both in starting order, and the handle count before the first.
OverlapPre ==
    IF Len(last.peer.pre) < Len(last.pre) THEN last.peer.pre ELSE last.pre

OverlapTexts ==
    IF Len(last.peer.pre) < Len(last.pre)
    THEN << last.peer.content, last.content >>
    ELSE << last.content, last.peer.content >>

OverlapConstructedBefore ==
    IF Len(last.peer.pre) < Len(last.pre)
    THEN last.peer.constructedAtCall ELSE last.constructedBefore

\* C20: when a second echo_message / process_with_ai call starts while a first
\* is suspended, the transcript only ever grows at its end, and when both have
\* returned it is the transcript the first call found followed by exactly
\* four messages: the two user messages in starting order, then each call's
\* reply or error notice in returning order, each the value its call returned;
\* the client was constructed at most once from the first call on.
C20_OverlapLosesNoMessage ==
    /\ [](OverlapFinished
            => /\ Len(last.pre) # Len(last.peer.pre)
               /\ messages = OverlapPre \o
                      << Msg("user", OverlapTexts[1]),
                         Msg("user", OverlapTexts[2]),
                         Recorded(last.peer.outcome),
                         Recorded(last.outcome) >>
               /\ messages[Len(messages) - 1].content = last.peer.ret
               /\ messages[Len(messages)].content = last.ret
               /\ constructed - OverlapConstructedBefore \in {0, 1}
               /\ NoneInFlight)
    /\ [][IsPrefix(messages, messages')]_vars

\* Two calls overlapped on a non-empty transcript; the first to start built
\* the client and returned last, one with a reply and one with a failure.
C20_Witness ==
    /\ OverlapFinished
    /\ Len(last.pre) < Len(last.peer.pre)
    /\ Len(last.pre) >= 1
    /\ last.op = "process_with_ai"
    /\ last.peer.op = "echo_message"
    /\ constructed = last.constructedBefore + 1
    /\ ReplyOutcome(last.outcome)
    /\ ~ReplyOutcome(last.peer.outcome)

====
